---------------------------- MODULE Spec2Model ----------------------------
(***************************************************************************)
(* download-resources.py: parse_cmake_dependencies, the generator that     *)
(* walks the statements of dependencies.cmake and yields TarballURL,       *)
(* PatchURL and GitRepository descriptors, and main, the loop that fetches *)
(* each descriptor into sources/ and patches/.                             *)
(*                                                                         *)
(* Python strings are TLA+ strings; every string function the code calls   *)
(* (lower, in, replace, strip, rstrip, split, urlparse) is computed        *)
(* character by character.  Python indexes args from 0, the model from 1.  *)
(***************************************************************************)
EXTENDS Integers, Sequences, FiniteSets, TLC

(***************************************************************************)
(* Bounds of the model.                                                    *)
(***************************************************************************)
\* longest list of arguments drawn after the fixed beginnings of a body
MaxArgs == 3
\* longest argument list of a statement of a two-statement script
MaxShort == 2
\* longest script of the whole program
MaxStatements == 2
\* longest list of descriptors handed to the fetch stage
MaxDescs == 2
\* runs of the program in the same working directory
MaxRuns == 2
\* bytes one f.read takes: stands for the 4096 of f.read(4096)
ReadSize == 2

(***************************************************************************)
(* String functions.                                                       *)
(***************************************************************************)
UpperChars == "ABCDEFGHIJKLMNOPQRSTUVWXYZ"
LowerChars == "abcdefghijklmnopqrstuvwxyz"
Digits == "0123456789"

CharAt(s, k) == SubSeq(s, k, k)

Drop(s, n) == SubSeq(s, n + 1, Len(s))

\* Python: s[:n]
Take(s, n) == SubSeq(s, 1, IF Len(s) < n THEN Len(s) ELSE n)

\* Python: needle in hay (substring test; the empty string is in every string)
Contains(hay, needle) ==
    \E k \in 1..(Len(hay) - Len(needle) + 1) :
        SubSeq(hay, k, k + Len(needle) - 1) = needle

\* Python: hay.find(needle) + 1, 0 when absent
Find(hay, needle) ==
    IF Contains(hay, needle)
    THEN CHOOSE k \in 1..(Len(hay) - Len(needle) + 1) :
            /\ SubSeq(hay, k, k + Len(needle) - 1) = needle
            /\ \A m \in 1..(k - 1) : SubSeq(hay, m, m + Len(needle) - 1) # needle
    ELSE 0

LowerChar(c) ==
    IF Contains(UpperChars, c) THEN CharAt(LowerChars, Find(UpperChars, c)) ELSE c

RECURSIVE Lower(_)
\* Python: s.lower()
Lower(s) == IF s = "" THEN "" ELSE LowerChar(CharAt(s, 1)) \o Lower(Drop(s, 1))

RECURSIVE Replace(_, _, _)
\* Python: s.replace(old, new), old not empty
Replace(s, old, new) ==
    IF Len(s) < Len(old) THEN s
    ELSE IF Take(s, Len(old)) = old
         THEN new \o Replace(Drop(s, Len(old)), old, new)
         ELSE CharAt(s, 1) \o Replace(Drop(s, 1), old, new)

RECURSIVE LStrip(_, _)
LStrip(s, c) == IF s # "" /\ CharAt(s, 1) = c THEN LStrip(Drop(s, 1), c) ELSE s

RECURSIVE RStrip(_, _)
\* Python: s.rstrip(c) for a one-character c
RStrip(s, c) ==
    IF s # "" /\ CharAt(s, Len(s)) = c THEN RStrip(SubSeq(s, 1, Len(s) - 1), c) ELSE s

\* Python: s.strip(c) for a one-character c
Strip(s, c) == RStrip(LStrip(s, c), c)

(***************************************************************************)
(* urllib.parse.urlparse, as far as the code reads its result: the scheme  *)
(* and the network location.                                               *)
(***************************************************************************)
SchemeChars == LowerChars \o UpperChars \o Digits \o "+-."

AllIn(s, chars) == \A k \in 1..Len(s) : Contains(chars, CharAt(s, k))

HasScheme(s) ==
    LET i == Find(s, ":")
    IN  /\ i > 1
        /\ Contains(LowerChars \o UpperChars, CharAt(s, 1))
        /\ AllIn(SubSeq(s, 1, i - 1), SchemeChars)

UrlScheme(s) == IF HasScheme(s) THEN Lower(SubSeq(s, 1, Find(s, ":") - 1)) ELSE ""

AfterScheme(s) == IF HasScheme(s) THEN Drop(s, Find(s, ":")) ELSE s

RECURSIVE UpToDelim(_)
\* the prefix of s before the first of / ? #
UpToDelim(s) ==
    IF s = "" \/ Contains("/?#", CharAt(s, 1)) THEN ""
    ELSE CharAt(s, 1) \o UpToDelim(Drop(s, 1))

UrlNetloc(s) ==
    LET rest == AfterScheme(s)
    IN  IF Take(rest, 2) = "//" THEN UpToDelim(Drop(rest, 2)) ELSE ""

(***************************************************************************)
(* The descriptors.                                                        *)
(***************************************************************************)
\* Python None, for an optional string
None == [some |-> FALSE, v |-> ""]
Some(v) == [some |-> TRUE, v |-> v]

\* hash = None, or the pair (hash_algorithm, hash_value)
NoHash == [some |-> FALSE, algorithm |-> "", value |-> ""]
HashSpec(algorithm, value) == [some |-> TRUE, algorithm |-> algorithm, value |-> value]

TarballURL(url, hash) == [type |-> "TarballURL", url |-> url, hash |-> hash, tag |-> None]
PatchURL(url) == [type |-> "PatchURL", url |-> url, hash |-> NoHash, tag |-> None]
GitRepository(url, tag) == [type |-> "GitRepository", url |-> url, hash |-> NoHash, tag |-> tag]

NoItem == [type |-> "none", url |-> "", hash |-> NoHash, tag |-> None]

EXTERNALPROJECT_OPTIONS == {
    "DEPENDS", "PREFIX", "LIST_SEPARATOR", "TMP_DIR", "STAMP_DIR",
    "EXCLUDE_FROM_ALL", "DOWNLOAD_NAME", "DOWNLOAD_DIR", "DOWNLOAD_COMMAND",
    "DOWNLOAD_NO_PROGRESS", "CVS_REPOSITORY", "CVS_TAG", "SVN_REPOSITORY",
    "SVN_REVISION", "SVN_USERNAME", "SVN_PASSWORD", "SVN_TRUST_CERT",
    "GIT_REPOSITORY", "GIT_TAG", "GIT_REMOTE_NAME", "GIT_SUBMODULES",
    "GIT_SHALLOW", "GIT_PROGRESS", "GIT_CONFIG", "HG_REPOSITORY", "HG_TAG",
    "URL", "URL_HASH_ALGO", "URL_MD5", "HTTP_USERNAME", "HTTP_PASSWORD",
    "HTTP_HEADER", "TLS_VERIFY", "TLS_CAINFO", "TIMEOUT",
    "DOWNLOAD_NO_EXTRACT", "UPDATE_COMMAND", "UPDATE_DISCONNECTED",
    "PATCH_COMMAND", "SOURCE_DIR", "SOURCE_SUBDIR", "CONFIGURE_COMMAND",
    "CMAKE_COMMAND", "CMAKE_GENERATOR", "CMAKE_GENERATOR_PLATFORM",
    "CMAKE_GENERATOR_TOOLSET", "CMAKE_ARGS", "CMAKE_CACHE_ARGS",
    "CMAKE_CACHE_DEFAULT_ARGS", "BINARY_DIR", "BUILD_COMMAND",
    "BUILD_IN_SOURCE", "BUILD_ALWAYS", "BUILD_BYPRODUCTS", "INSTALL_DIR",
    "INSTALL_COMMAND", "TEST_BEFORE_INSTALL", "TEST_AFTER_INSTALL",
    "TEST_EXCLUDE_FROM_MAIN", "TEST_COMMAND", "LOG_DOWNLOAD", "LOG_UPDATE",
    "LOG_CONFIGURE", "LOG_BUILD", "LOG_TEST", "LOG_INSTALL",
    "USES_TERMINAL_DOWNLOAD", "USES_TERMINAL_UPDATE",
    "USES_TERMINAL_CONFIGURE", "USES_TERMINAL_BUILD", "USES_TERMINAL_TEST",
    "USES_TERMINAL_INSTALL", "STEP_TARGETS", "INDEPENDENT_STEP_TARGETS",
    "COMMAND", "URL"
}

(***************************************************************************)
(* The parsed script: statements with an optional name and a body of       *)
(* arguments, each argument with or without the attribute contents.        *)
(***************************************************************************)
Arg(contents) == [has |-> TRUE, contents |-> contents]
NoContents == [has |-> FALSE, contents |-> ""]
Statement(name, body) == [hasname |-> TRUE, name |-> name, body |-> body]
\* a comment or a blank line: no attribute name
Unnamed == [hasname |-> FALSE, name |-> "", body |-> <<>>]

(***************************************************************************)
(* The strings the scripts of the model are made of.  The string functions *)
(* are tabulated over them once (LowerOf, PatchCommandLike, UrlLike), so   *)
(* that a step looks a result up instead of computing it again.            *)
(***************************************************************************)
Tokens == {
    Arg("URL"), Arg("GIT_REPOSITORY"), Arg("Git_Tag"), Arg("PATCH_COMMAND"),
    Arg("patch"), Arg("COMMAND"), Arg("DEPENDS"), Arg("https://x/a"),
    NoContents
}

ShortTokens == {
    Arg("URL"), Arg("GIT_REPOSITORY"), Arg("PATCH_COMMAND"), Arg("https://x/a")
}

Names == {"ExternalProject_Add", "EXTERNALPROJECT_ADD", "set"}

\* the fixed beginnings of a body
Prefixes == {
    <<>>,
    <<Arg("GIT_REPOSITORY"), Arg("https://x/b.git")>>,
    <<Arg("PATCH_COMMAND"), Arg("patch")>>
}

\* the statements of the scripts of the whole program
GitStatement ==
    Statement("ExternalProject_Add",
              <<Arg("xz"), Arg("GIT_REPOSITORY"), Arg("https://x/b.git"),
                Arg("GIT_TAG"), Arg("v2")>>)

GitDefaultStatement ==
    Statement("ExternalProject_Add",
              <<Arg("xz"), Arg("GIT_REPOSITORY"), Arg("https://x/b.git")>>)

\* a tarball and a patch for it: two descriptors from one statement
UrlPatchStatement ==
    Statement("ExternalProject_Add",
              <<Arg("fuse"), Arg("URL"), Arg("https://x/a.tgz"),
                Arg("PATCH_COMMAND"), Arg("wget"), Arg("https://x/c.patch"),
                Arg("DEPENDS"), Arg("zlib")>>)

ProgramStatements ==
    {GitStatement, GitDefaultStatement, UrlPatchStatement, Unnamed}

KnownStrings ==
    {t.contents : t \in Tokens \cup ShortTokens} \cup Names
    \cup UNION {{p[k].contents : k \in 1..Len(p)} : p \in Prefixes}
    \cup UNION {{st.body[k].contents : k \in 1..Len(st.body)} : st \in ProgramStatements}

LowerOf == [s \in KnownStrings |-> Lower(s)]

LowerStrings == {LowerOf[s] : s \in KnownStrings}

VARIABLES
    script,     \* cmp.parse(response.text): the statements
    si,         \* the statement the generator is at, 1..Len(script)+1
    ai,         \* the argument the generator is at (i + 1); 0 before the body
    pj,         \* the argument the patch scan is at; 0 outside a patch scan
    skip_args,  \* skip_args
    yielded,    \* the descriptors yielded so far, each with the statement
                \* and the keyword argument it comes from
    pc,         \* where main is: "next", "item", ..., "done", "raised"
    item,       \* the descriptor main's loop holds
    descs,      \* the descriptors handed to the fetch stage when it is run
                \* without the extractor
    fi,         \* the next of descs
    run,        \* the runs of the program so far, this one included
    fs,         \* the files below the working directory: path -> contents
    dirs,       \* the directories below the working directory
    log,        \* the messages logged in this run
    started,    \* the items main has started on in this run
    writes,     \* the paths opened for writing in this run
    path,       \* path
    total,      \* total
    hash_algorithm, \* hash_algorithm
    hash_value, \* hash_value
    digest,     \* digest
    response,   \* the body of the response and how much of it is read
    before,     \* the contents of path when os.path.exists(path) was asked
    tempdir,    \* the temporary directory of the with statement
    tarball_name,   \* tarball_name
    exc         \* the exception that ended the run, "" when none did

genVars == <<si, ai, pj, skip_args, yielded>>

\* main's local variables
itemVars ==
    <<path, total, hash_algorithm, hash_value, digest, response, before,
      tempdir, tarball_name>>

\* what the generator does not touch
envVars == <<script, descs, fi, run, fs, dirs, log, started, writes, itemVars>>

vars == <<genVars, pc, item, exc, envVars>>

(***************************************************************************)
(* parse_cmake_dependencies: the generator.  It runs while main's for loop *)
(* asks for the next item (pc = "next") and is suspended at a yield while  *)
(* main holds the item.  An exception raised in the generator leaves main  *)
(* through the for loop: pc = "raised".                                    *)
(***************************************************************************)
args == script[si].body

\* the name compared as it is spelled
MatchingExact(statement) ==
    statement.hasname /\ statement.name = "externalproject_add"

Matching(statement) ==
    statement.hasname /\ LowerOf[statement.name] = "externalproject_add"

RECURSIVE WhileSkip(_)
\* while skip_args > 0: skip_args -= 1; continue
\* The continue belongs to the while loop: the loop only counts skip_args
\* down to 0 and the argument is inspected all the same.
WhileSkip(n) ==
    IF n > 0 THEN WhileSkip(n - 1) ELSE [skip_args |-> n, skipped |-> FALSE]

Running == pc = "next" /\ si <= Len(script)

InBody == Running /\ ai >= 1 /\ ai <= Len(args) /\ pj = 0

\* the argument is looked at: not skipped, and it has contents
Inspected == ~WhileSkip(skip_args).skipped /\ args[ai].has

lc == LowerOf[args[ai].contents]

\* lc in ("patch_command"): the operand is a string, not a tuple
PatchCommandLike == {s \in LowerStrings : Contains("patch_command", s)}

IsPatchCommand(s) == s \in PatchCommandLike

\* a generator that hands its descriptors over newest first
YieldFront(d, t) ==
    /\ item' = d
    /\ pc' = "item"
    /\ yielded' = <<[d |-> d, s |-> si, a |-> ai, t |-> t]>> \o yielded
    /\ exc' = exc

Yield(d, t) ==
    /\ item' = d
    /\ pc' = "item"
    /\ yielded' = Append(yielded, [d |-> d, s |-> si, a |-> ai, t |-> t])
    /\ exc' = exc

\* an exception leaves the generator
Raise(e) ==
    /\ pc' = "raised"
    /\ exc' = e
    /\ UNCHANGED <<item, yielded>>

\* args[k].contents can be evaluated
Readable(k) == k <= Len(args) /\ args[k].has

\* what evaluating args[k].contents raises when it cannot be evaluated
ReadError(k) == IF k > Len(args) THEN "IndexError" ELSE "AttributeError"

NextStatement ==
    /\ Running /\ ai = 0
    /\ IF Matching(script[si])
       THEN /\ ai' = 1
            /\ skip_args' = 0
            /\ si' = si
       ELSE /\ si' = si + 1
            /\ UNCHANGED <<ai, skip_args>>
    /\ UNCHANGED <<pj, yielded, pc, item, exc>>
    /\ UNCHANGED envVars

EndStatement ==
    /\ Running /\ ai > Len(args) /\ pj = 0
    /\ si' = si + 1
    /\ ai' = 0
    /\ UNCHANGED <<pj, skip_args, yielded, pc, item, exc>>
    /\ UNCHANGED envVars

StopIteration ==
    /\ pc = "next" /\ si > Len(script)
    /\ pc' = "done"
    /\ UNCHANGED <<genVars, item, exc>>
    /\ UNCHANGED envVars

ArgOther ==
    /\ InBody
    /\ \/ ~Inspected
       \/ /\ lc # "url"
          /\ lc # "git_repository"
          /\ ~IsPatchCommand(lc)
    /\ skip_args' = WhileSkip(skip_args).skip_args
    /\ ai' = ai + 1
    /\ UNCHANGED <<si, pj, yielded, pc, item, exc>>
    /\ UNCHANGED envVars

ArgUrl ==
    /\ InBody /\ Inspected
    /\ lc = "url"
    /\ skip_args' = 1
    /\ ai' = ai + 1
    /\ IF Readable(ai + 1)
       THEN Yield(TarballURL(args[ai + 1].contents, NoHash), ai + 1)
       ELSE Raise(ReadError(ai + 1))
    /\ UNCHANGED <<si, pj>>
    /\ UNCHANGED envVars

\* the tag looked for in the one argument after the url only
TagScanAdjacent(k) ==
    IF k > Len(args) THEN [raised |-> "", tag |-> None]
    ELSE IF ~args[k].has THEN [raised |-> "AttributeError", tag |-> None]
    ELSE IF LowerOf[args[k].contents] = "git_tag"
         THEN IF Readable(k + 1)
              THEN [raised |-> "", tag |-> Some(args[k + 1].contents)]
              ELSE [raised |-> ReadError(k + 1), tag |-> None]
         ELSE [raised |-> "", tag |-> None]

RECURSIVE TagScan(_)
\* for j, potential_tag in enumerate(args[i+2:]), k the place of potential_tag
\* The test before the comparison asks arg, the git_repository argument,
\* for contents, not potential_tag.
TagScan(k) ==
    IF k > Len(args) THEN [raised |-> "", tag |-> None]
    ELSE IF ~args[ai].has THEN TagScan(k + 1)
    ELSE IF ~args[k].has THEN [raised |-> "AttributeError", tag |-> None]
    ELSE IF LowerOf[args[k].contents] = "git_tag"
         THEN IF Readable(k + 1)
              THEN [raised |-> "", tag |-> Some(args[k + 1].contents)]
              ELSE [raised |-> ReadError(k + 1), tag |-> None]
         ELSE TagScan(k + 1)

ArgGitRepository ==
    /\ InBody /\ Inspected
    /\ lc # "url"
    /\ lc = "git_repository"
    /\ skip_args' = 1
    /\ ai' = ai + 1
    /\ IF ~Readable(ai + 1) THEN Raise(ReadError(ai + 1))
       ELSE IF TagScan(ai + 2).raised # "" THEN Raise(TagScan(ai + 2).raised)
       ELSE Yield(GitRepository(args[ai + 1].contents, TagScan(ai + 2).tag), ai + 1)
    /\ UNCHANGED <<si, pj>>
    /\ UNCHANGED envVars

ArgPatchCommand ==
    /\ InBody /\ Inspected
    /\ lc # "url"
    /\ lc # "git_repository"
    /\ IsPatchCommand(lc)
    /\ skip_args' = 1
    /\ pj' = ai + 1
    /\ UNCHANGED <<si, ai, yielded, pc, item, exc>>
    /\ UNCHANGED envVars

\* i.replace("$<SEMICOLON>", ";").strip("\"")
PatchCandidate(s) == Strip(Replace(s, "$<SEMICOLON>", ";"), "\"")

\* parsed.scheme and parsed.netloc
IsUrl(s) == UrlScheme(s) # "" /\ UrlNetloc(s) # ""

CandidateOf == [s \in KnownStrings |-> PatchCandidate(s)]

UrlLike == {s \in KnownStrings : IsUrl(PatchCandidate(s))}

InPatchScan == Running /\ pj > 0

\* the scan breaks at a reserved option, or runs out of arguments
PatchEnd ==
    /\ InPatchScan
    /\ \/ pj > Len(args)
       \/ /\ pj <= Len(args)
          /\ args[pj].has
          /\ args[pj].contents \in EXTERNALPROJECT_OPTIONS
    /\ pj' = 0
    /\ ai' = ai + 1
    /\ UNCHANGED <<si, skip_args, yielded, pc, item, exc>>
    /\ UNCHANGED envVars

PatchContinue ==
    /\ InPatchScan /\ pj <= Len(args)
    /\ \/ ~args[pj].has
       \/ /\ args[pj].has
          /\ args[pj].contents \notin EXTERNALPROJECT_OPTIONS
          /\ args[pj].contents \notin UrlLike
    /\ pj' = pj + 1
    /\ UNCHANGED <<si, ai, skip_args, yielded, pc, item, exc>>
    /\ UNCHANGED envVars

PatchYield ==
    /\ InPatchScan /\ pj <= Len(args)
    /\ args[pj].has
    /\ args[pj].contents \notin EXTERNALPROJECT_OPTIONS
    /\ args[pj].contents \in UrlLike
    /\ Yield(PatchURL(CandidateOf[args[pj].contents]), pj)
    /\ pj' = pj + 1
    /\ UNCHANGED <<si, ai, skip_args>>
    /\ UNCHANGED envVars

Generator ==
    \/ NextStatement
    \/ EndStatement
    \/ StopIteration
    \/ ArgOther
    \/ ArgUrl
    \/ ArgGitRepository
    \/ ArgPatchCommand
    \/ PatchEnd
    \/ PatchContinue
    \/ PatchYield


(***************************************************************************)
(* main: what its loop body reads from the world.                          *)
(***************************************************************************)
RECURSIVE LastSegment(_)
\* s.split("/")[-1]
LastSegment(s) ==
    IF Contains(s, "/") THEN LastSegment(Drop(s, Find(s, "/"))) ELSE s

\* repo_url.rstrip("/").split("/")[-1].replace(".git", "")
RepoName(repo_url) == Replace(LastSegment(RStrip(repo_url, "/")), ".git", "")

\* "{}-{}.tar.gz".format(repo_name, version)
TarballName(repo_name, version) == repo_name \o "-" \o version \o ".tar.gz"

\* what git archive --prefix repo_name/ tag writes: the tree at tag below
\* the prefix
GitArchive(repo_name, tag) == repo_name \o "/@" \o tag

\* the file name rfc6266 derives for a response without Content-Disposition:
\* the last segment of the URL
FileName(url) == LastSegment(url)

\* os.path.join(dir, name)
Join(dir, name) == dir \o "/" \o name

\* os.path.dirname(path)
RECURSIVE DirName(_)
DirName(p) ==
    IF p = "" THEN ""
    ELSE IF CharAt(p, Len(p)) = "/" THEN SubSeq(p, 1, Len(p) - 1)
    ELSE DirName(SubSeq(p, 1, Len(p) - 1))

Destination(d, filename) ==
    IF d.type = "TarballURL" THEN Join("sources", filename)
    ELSE IF d.type = "PatchURL" THEN Join("patches", filename)
    ELSE filename

\* os.path.exists(p)
Exists(p) == p \in DOMAIN fs

\* the files after p is written with contents c
Put(files, p, c) ==
    [q \in DOMAIN files \cup {p} |-> IF q = p THEN c ELSE files[q]]

EmptyFs == [q \in {} |-> ""]

(***************************************************************************)
(* hashlib: a digest is the algorithm and the data fed to it; two digests  *)
(* are equal exactly when both are.                                        *)
(***************************************************************************)
RECURSIVE Upper(_)
\* Python: s.upper()
Upper(s) ==
    IF s = "" THEN ""
    ELSE (IF Contains(LowerChars, CharAt(s, 1))
          THEN CharAt(UpperChars, Find(LowerChars, CharAt(s, 1)))
          ELSE CharAt(s, 1)) \o Upper(Drop(s, 1))

\* hashlib.algorithms_available
AlgorithmsAvailable == {"sha256", "md5"}

NoDigest == [some |-> FALSE, algorithm |-> "", data |-> ""]

\* hashlib.new(name): the name is matched whatever its case
HashNew(name) == [some |-> TRUE, algorithm |-> Lower(name), data |-> ""]

Update(d, data) == [d EXCEPT !.data = @ \o data]

Hexdigest(d) == d.algorithm \o ":" \o d.data

\* total: None or an integer
NoTotal == [some |-> FALSE, n |-> 0]
Total(n) == [some |-> TRUE, n |-> n]

\* int(response.headers.get("Content-Length", None)), None on ValueError
\* and TypeError
ContentLength(header, n) == IF header = "length" THEN Total(n) ELSE NoTotal

NoTempdir == [exists |-> FALSE, tarball |-> FALSE]

NoResponse == [body |-> "", pos |-> 0]

Message(msg, about) == [msg |-> msg, about |-> about]

\* the state of the locals of the loop body outside an item
ItemReset ==
    /\ item' = NoItem
    /\ path' = ""
    /\ total' = NoTotal
    /\ hash_algorithm' = None
    /\ hash_value' = None
    /\ digest' = NoDigest
    /\ response' = NoResponse
    /\ before' = None
    /\ tempdir' = NoTempdir
    /\ tarball_name' = ""

\* the loop body is over (it ran to its end, or continue): next item
Continue ==
    /\ pc' = "next"
    /\ exc' = exc
    /\ ItemReset

\* an exception that leaves the temporary directory of the item behind
UncaughtKeepingTempdir(e) ==
    /\ pc' = "raised"
    /\ exc' = e
    /\ item' = NoItem
    /\ path' = ""
    /\ total' = NoTotal
    /\ hash_algorithm' = None
    /\ hash_value' = None
    /\ digest' = NoDigest
    /\ response' = NoResponse
    /\ before' = None
    /\ tempdir' = tempdir
    /\ tarball_name' = ""

\* an exception nothing catches: it leaves the with statement, which
\* removes the temporary directory, then the for loop and main
Uncaught(e) ==
    /\ pc' = "raised"
    /\ exc' = e
    /\ ItemReset

(***************************************************************************)
(* main, a GitRepository item: lines 185-225.                              *)
(***************************************************************************)
BeginGit ==
    /\ pc = "item" /\ item.type = "GitRepository"
    /\ started' = Append(started, item)
    /\ tempdir' = [exists |-> TRUE, tarball |-> FALSE]
    /\ log' = Append(log, Message("Cloning Git repository", item.url))
    /\ pc' = "clone"
    /\ UNCHANGED <<script, descs, fi, run, genVars, item, fs, dirs, writes, exc>>
    /\ UNCHANGED <<path, total, hash_algorithm, hash_value, digest, response,
                   before, tarball_name>>

\* porcelain.clone(repo_url, tempdir)
Clone ==
    /\ pc = "clone"
    /\ \E ok \in BOOLEAN :
        IF ok
        THEN /\ pc' = "describe"
             /\ UNCHANGED <<item, itemVars, exc>>
        ELSE Uncaught("GitError")
    /\ UNCHANGED <<script, descs, fi, run, genVars, fs, dirs, log, started, writes>>

\* the version strings git describe --always --tags tag can print
Versions(tag) == {tag, "0a1b2c3"}

\* git describe, tarball_name, os.path.exists(tarball_name)
Describe ==
    /\ pc = "describe"
    /\ IF ~item.tag.some
       THEN \* subprocess refuses None in its argument list
            /\ Uncaught("TypeError")
            /\ UNCHANGED log
       ELSE \E ok \in BOOLEAN :
            IF ~ok
            THEN \* the repository has no such ref
                 /\ Uncaught("CalledProcessError")
                 /\ UNCHANGED log
            ELSE \E version \in Versions(item.tag.v) :
                 LET name == TarballName(RepoName(item.url), version)
                 IN  IF Exists(name)
                     THEN /\ log' = Append(log, Message("exists, skipping", name))
                          /\ Continue
                     ELSE /\ log' = Append(log, Message("Creating tarball", name))
                          /\ tarball_name' = name
                          /\ pc' = "archive"
                          /\ UNCHANGED <<item, path, total, hash_algorithm,
                                         hash_value, digest, response, before,
                                         tempdir, exc>>
    /\ UNCHANGED <<script, descs, fi, run, genVars, fs, dirs, started, writes>>

\* git archive -o tarball_path --prefix repo_name/ tag
Archive ==
    /\ pc = "archive"
    /\ \E ok \in BOOLEAN :
        IF ok
        THEN /\ tempdir' = [exists |-> TRUE, tarball |-> TRUE]
             /\ pc' = "copy"
             /\ UNCHANGED <<item, path, total, hash_algorithm, hash_value,
                            digest, response, before, tarball_name, exc>>
        ELSE Uncaught("CalledProcessError")
    /\ UNCHANGED <<script, descs, fi, run, genVars, fs, dirs, log, started, writes>>

\* shutil.copyfile(tarball_path, os.path.join(destination, tarball_name))
Copy ==
    /\ pc = "copy"
    /\ IF "sources" \in dirs
       THEN /\ fs' = Put(fs, Join("sources", tarball_name),
                         GitArchive(RepoName(item.url), item.tag.v))
            /\ writes' = writes \cup {Join("sources", tarball_name)}
            /\ Continue
       ELSE \* nothing creates sources/ for this item
            /\ Uncaught("FileNotFoundError")
            /\ UNCHANGED <<fs, writes>>
    /\ UNCHANGED <<script, descs, fi, run, genVars, dirs, log, started>>

(***************************************************************************)
(* main, a TarballURL or PatchURL item: lines 227-315.                     *)
(***************************************************************************)
\* the algorithm of the item's hash is one hashlib has
Supported(d) == d.hash.some /\ d.hash.algorithm \in AlgorithmsAvailable

BeginUrl ==
    /\ pc = "item" /\ item.type \in {"TarballURL", "PatchURL"}
    /\ started' = Append(started, item)
    /\ hash_value' = IF item.hash.some THEN Some(item.hash.value) ELSE None
    /\ hash_algorithm' = IF Supported(item) THEN Some(item.hash.algorithm) ELSE None
    /\ digest' = IF Supported(item) THEN HashNew(Upper(item.hash.algorithm)) ELSE NoDigest
    /\ log' = log \o <<Message("Downloading URL", item.url)>>
                  \o (IF item.hash.some /\ ~Supported(item)
                      THEN <<Message("hashing algorithm not supported", item.hash.algorithm)>>
                      ELSE <<>>)
    /\ pc' = "get"
    /\ UNCHANGED <<script, descs, fi, run, genVars, item, fs, dirs, writes, exc>>
    /\ UNCHANGED <<path, total, response, before, tempdir, tarball_name>>

Pattern == "abcdefgh"

\* the bodies a server sends: nothing, one read, more than one read
Contents == {"", SubSeq(Pattern, 1, ReadSize), SubSeq(Pattern, 1, ReadSize + 1)}

\* what a server sends for Content-Length
Headers == {"absent", "garbage", "length"}

\* requests.get, raise_for_status, the file name, path and total
Get ==
    /\ pc = "get"
    /\ \E ok \in BOOLEAN :
        IF ~ok
        THEN \* requests.get fails, or raise_for_status on the status
             Uncaught("HTTPError")
        ELSE \E body \in Contents, header \in Headers :
             LET p == Destination(item, FileName(item.url))
             IN  /\ response' = [body |-> body, pos |-> 0]
                 /\ path' = p
                 /\ total' = ContentLength(header, Len(body))
                 /\ before' = IF Exists(p) THEN Some(fs[p]) ELSE None
                 /\ pc' = "exists"
                 /\ UNCHANGED <<item, hash_algorithm, hash_value, digest,
                                tempdir, tarball_name, exc>>
    /\ UNCHANGED <<script, descs, fi, run, genVars, fs, dirs, log, started, writes>>

\* data = f.read(4096), read once: no loop stands around the read
LocalData == Take(fs[path], ReadSize)

\* local_digest after local_digest.update(data)
LocalDigest == Update(HashNew(hash_algorithm.v), LocalData)

\* a decision that takes an undeclared size for an equal one
DecisionUnknownSkips ==
    IF ~Exists(path) THEN "download"
    ELSE IF hash_algorithm.some /\ LocalData = "" THEN "break"
    ELSE IF hash_algorithm.some /\ hash_value.v = Hexdigest(LocalDigest) THEN "skip"
    ELSE IF ~total.some THEN "skip"
    ELSE IF Len(fs[path]) = total.n THEN "skip"
    ELSE "download"

\* lines 271-297: what becomes of an item whose path exists
Decision ==
    IF ~Exists(path) THEN "download"
    ELSE IF hash_algorithm.some /\ LocalData = "" THEN "break"
    ELSE IF hash_algorithm.some /\ hash_value.v = Hexdigest(LocalDigest) THEN "skip"
    ELSE IF ~total.some THEN "unknown"
    ELSE IF Len(fs[path]) = total.n THEN "skip"
    ELSE "download"

\* log("Warning: file {} exists, skipping download"); continue
Skip ==
    /\ pc = "exists" /\ Decision = "skip"
    /\ log' = Append(log, Message("exists, skipping", path))
    /\ Continue
    /\ UNCHANGED <<script, descs, fi, run, genVars, fs, dirs, started, writes>>

\* if not data: break -- the break leaves the for loop of main
Break ==
    /\ pc = "exists" /\ Decision = "break"
    /\ pc' = "done"
    /\ exc' = exc
    /\ ItemReset
    /\ UNCHANGED <<script, descs, fi, run, genVars, fs, dirs, log, started, writes>>

\* os.makedirs(os.path.dirname(path), exist_ok=True); open(path, "wb")
Open ==
    /\ pc = "exists" /\ Decision \in {"download", "unknown"}
    /\ log' = IF Decision = "unknown"
              THEN Append(log, Message("size unknown, overwriting", path))
              ELSE log
    /\ dirs' = dirs \cup {DirName(path)}
    /\ fs' = Put(fs, path, "")
    /\ writes' = writes \cup {path}
    /\ pc' = "stream"
    /\ UNCHANGED <<script, descs, fi, run, genVars, item, started, itemVars, exc>>

\* for chunk in response.iter_content(): one byte a chunk
Stream ==
    /\ pc = "stream" /\ response.pos < Len(response.body)
    /\ LET chunk == CharAt(response.body, response.pos + 1)
       IN  /\ fs' = Put(fs, path, fs[path] \o chunk)
           /\ digest' = IF digest.some THEN Update(digest, chunk) ELSE digest
           /\ response' = [response EXCEPT !.pos = @ + 1]
    /\ UNCHANGED <<script, descs, fi, run, genVars, pc, item, dirs, log, started, writes>>
    /\ UNCHANGED <<path, total, hash_algorithm, hash_value, before, tempdir,
                   tarball_name, exc>>

\* the connection drops while the body is read
StreamError ==
    /\ pc = "stream" /\ response.pos < Len(response.body)
    /\ Uncaught("ConnectionError")
    /\ UNCHANGED <<script, descs, fi, run, genVars, fs, dirs, log, started, writes>>

\* an end of the item that removes a file it could not verify
FinishDeleting ==
    /\ pc = "stream" /\ response.pos = Len(response.body)
    /\ IF digest.some /\ hash_value.v # Hexdigest(digest)
       THEN /\ log' = Append(log, Message("could not verify file integrity", path))
            /\ fs' = [q \in DOMAIN fs \ {path} |-> fs[q]]
       ELSE UNCHANGED <<log, fs>>
    /\ Continue
    /\ UNCHANGED <<script, descs, fi, run, genVars, dirs, started, writes>>

\* the body is read to its end: lines 311-315
Finish ==
    /\ pc = "stream" /\ response.pos = Len(response.body)
    /\ log' = IF digest.some /\ hash_value.v # Hexdigest(digest)
              THEN Append(log, Message("could not verify file integrity", path))
              ELSE log
    /\ Continue
    /\ UNCHANGED <<script, descs, fi, run, genVars, fs, dirs, started, writes>>

GitItem ==
    \/ BeginGit
    \/ Clone
    \/ Describe
    \/ Archive
    \/ Copy

\* Break is left out: it needs a hash, see FetchNext
UrlItem ==
    \/ BeginUrl
    \/ Get
    \/ Skip
    \/ Open
    \/ Stream
    \/ StreamError
    \/ Finish

\* the program is run again in the same working directory
Rerun ==
    /\ pc \in {"done", "raised"} /\ run < MaxRuns
    /\ run' = run + 1
    /\ si' = 1 /\ ai' = 0 /\ pj' = 0 /\ skip_args' = 0 /\ yielded' = <<>>
    /\ fi' = 1
    /\ log' = <<>> /\ started' = <<>> /\ writes' = {}
    /\ pc' = "next"
    /\ exc' = ""
    /\ UNCHANGED <<script, descs, fs, dirs, item, itemVars>>

(***************************************************************************)
(* The inputs: the scripts, the descriptors, the bodies a server sends and *)
(* the working directory the program is started in.                        *)
(***************************************************************************)
Bodies(tokens, n) == UNION {[1..k -> tokens] : k \in 0..n}

ShortStatements ==
    {Statement(n, b) : n \in Names, b \in Bodies(ShortTokens, MaxShort)} \cup {Unnamed}

ExtractScripts ==
    {<<Statement("ExternalProject_Add", p \o b)>> :
        p \in Prefixes, b \in Bodies(Tokens, MaxArgs)}
    \cup {<<s1, s2>> : s1 \in ShortStatements, s2 \in ShortStatements}

ProgramScripts ==
    {s \in UNION {[1..k -> ProgramStatements] : k \in 1..MaxStatements} :
        \A i, j \in DOMAIN s : i # j => s[i] # s[j]}

\* the hash of a TarballURL: the digest of one of the bodies, or an
\* algorithm hashlib does not have
Hashes ==
    {HashSpec("sha256", Hexdigest(Update(HashNew("sha256"), c))) :
        c \in {SubSeq(Pattern, 1, ReadSize), SubSeq(Pattern, 1, ReadSize + 1)}}
    \cup {HashSpec("crc99", "00")}

Descriptors ==
    {TarballURL("https://x/a.tgz", h) : h \in Hashes}
    \cup {PatchURL("https://x/c.patch")}

DescriptorLists == UNION {[1..k -> Descriptors] : k \in 1..MaxDescs}

\* the working directory at the start: clean, or with the directories of
\* the cache and a tarball lying beside them
Caches == {
    [fs |-> EmptyFs, dirs |-> {}],
    [fs |-> Put(EmptyFs, "b-v2.tar.gz", "b/@v2"), dirs |-> {"sources", "patches"}]
}

GenInit ==
    /\ si = 1
    /\ ai = 0
    /\ pj = 0
    /\ skip_args = 0
    /\ yielded = <<>>
    /\ pc = "next"
    /\ item = NoItem

MainInit ==
    /\ fi = 1
    /\ run = 1
    /\ log = <<>>
    /\ started = <<>>
    /\ writes = {}
    /\ path = ""
    /\ total = NoTotal
    /\ hash_algorithm = None
    /\ hash_value = None
    /\ digest = NoDigest
    /\ response = NoResponse
    /\ before = None
    /\ tempdir = NoTempdir
    /\ tarball_name = ""
    /\ exc = ""

(***************************************************************************)
(* The whole program: main over the descriptors of the generator.          *)
(***************************************************************************)
Init ==
    /\ script \in ProgramScripts
    /\ descs = <<>>
    /\ \E c \in Caches : fs = c.fs /\ dirs = c.dirs
    /\ GenInit
    /\ MainInit

Next ==
    \/ Generator
    \/ GitItem
    \/ UrlItem
    \/ Rerun

Spec == Init /\ [][Next]_vars

(***************************************************************************)
(* The extractor alone: every yielded descriptor is taken and the next one *)
(* asked for, over all small scripts.                                      *)
(***************************************************************************)
ExtractInit ==
    /\ script \in ExtractScripts
    /\ descs = <<>>
    /\ fs = EmptyFs /\ dirs = {}
    /\ GenInit
    /\ MainInit

\* the loop body is over; the for loop asks for the next item
Consume ==
    /\ pc = "item"
    /\ pc' = "next"
    /\ item' = NoItem
    /\ UNCHANGED <<genVars, envVars, exc>>

ExtractNext ==
    \/ Generator
    \/ Consume

ExtractSpec == ExtractInit /\ [][ExtractNext]_vars

(***************************************************************************)
(* The fetch stage alone: main over a given list of descriptors, which may *)
(* carry a hash (the generator never yields one).                          *)
(***************************************************************************)
FetchInit ==
    /\ script = <<>>
    /\ descs \in DescriptorLists
    /\ fs = EmptyFs /\ dirs = {}
    /\ GenInit
    /\ MainInit

\* for item in descs
TakeDescriptor ==
    /\ pc = "next" /\ fi <= Len(descs)
    /\ item' = descs[fi]
    /\ fi' = fi + 1
    /\ pc' = "item"
    /\ UNCHANGED <<script, descs, genVars, run, fs, dirs, log, started, writes,
                   itemVars, exc>>

EndDescriptors ==
    /\ pc = "next" /\ fi > Len(descs)
    /\ pc' = "done"
    /\ UNCHANGED <<script, descs, genVars, fi, run, fs, dirs, log, started, writes,
                   item, itemVars, exc>>

FetchNext ==
    \/ TakeDescriptor
    \/ EndDescriptors
    \/ UrlItem
    \/ Break
    \/ Rerun

FetchSpec == FetchInit /\ [][FetchNext]_vars

(***************************************************************************)
(* The git branch of main alone, over repositories of several urls.        *)
(***************************************************************************)
\* repository urls: with and without the .git suffix, with a trailing
\* slash, and with .git inside the last segment
GitUrls ==
    {"https://x/b.git", "https://x/b.git/", "https://x/b", "https://x/a.gitb.git"}

GitDescriptors ==
    {GitRepository(u, Some("v2")) : u \in GitUrls}
    \cup {GitRepository("https://x/b.git", None)}

GitDescriptorLists == UNION {[1..k -> GitDescriptors] : k \in 1..MaxDescs}

GitInit ==
    /\ script = <<>>
    /\ descs \in GitDescriptorLists
    /\ \E c \in Caches : fs = c.fs /\ dirs = c.dirs
    /\ GenInit
    /\ MainInit

GitNext ==
    \/ TakeDescriptor
    \/ EndDescriptors
    \/ GitItem
    \/ Rerun

GitSpec == GitInit /\ [][GitNext]_vars

(***************************************************************************)
(* The properties of the extractor, stated over ExtractSpec.               *)
(***************************************************************************)
Min(S) == CHOOSE x \in S : \A y \in S : x <= y

\* the places of the arguments of body b that spell keyword, whatever the case
KeywordAt(b, keyword) ==
    {k \in 1..Len(b) : b[k].has /\ LowerOf[b[k].contents] = keyword}

\* the statements of the script named externalproject_add, whatever the case
MatchingAt ==
    {s \in 1..Len(script) :
        script[s].hasname /\ LowerOf[script[s].name] = "externalproject_add"}

\* the yields of type from the argument at place t of statement s
YieldsAt(type, s, t) ==
    {i \in 1..Len(yielded) :
        yielded[i].d.type = type /\ yielded[i].s = s /\ yielded[i].t = t}

\* the generator is past statement s
Past(s) == s < si \/ pc = "done"

\* C5: in a matching statement with one PATCH_COMMAND and a reserved option
\* keyword after it, every absolute URL between the two is yielded as a
\* PatchURL exactly once, and nothing else is: no other token, and no
\* argument at or after the first reserved keyword.
ReservedAfter(b, k) ==
    {r \in (k + 1)..Len(b) : b[r].has /\ b[r].contents \in EXTERNALPROJECT_OPTIONS}

ExpectedPatches(b, t) ==
    LET k == Min(KeywordAt(b, "patch_command"))
        r == Min(ReservedAfter(b, k))
    IN  IF k < t /\ t < r /\ b[t].has /\ b[t].contents \in UrlLike THEN 1 ELSE 0

C5_PatchUrlFiltering ==
    \A s \in MatchingAt :
        LET b == script[s].body
        IN  (/\ Cardinality(KeywordAt(b, "patch_command")) = 1
             /\ ReservedAfter(b, Min(KeywordAt(b, "patch_command"))) # {})
            => \A t \in 1..Len(b) :
                /\ Cardinality(YieldsAt("PatchURL", s, t)) <= ExpectedPatches(b, t)
                /\ Past(s) =>
                    Cardinality(YieldsAt("PatchURL", s, t)) = ExpectedPatches(b, t)

\* C6: every GitRepository yielded for a git_repository argument carries
\* the contents of the next argument as url and, as tag, the contents of
\* the argument after the first later git_tag (any case), None when there
\* is no later git_tag; and when the extraction ends without an exception
\* every git_repository argument of a matching statement has yielded one.
ExpectedTag(b, from) ==
    LET tags == {k \in KeywordAt(b, "git_tag") : k >= from}
    IN  IF tags = {} THEN None
        ELSE IF Min(tags) + 1 <= Len(b) /\ b[Min(tags) + 1].has
             THEN Some(b[Min(tags) + 1].contents)
             ELSE None

C6_TagLookahead ==
    /\ \A i \in 1..Len(yielded) :
        yielded[i].d.type = "GitRepository" =>
            LET b == script[yielded[i].s].body
                a == yielded[i].a
            IN  yielded[i].d =
                    GitRepository(b[a + 1].contents, ExpectedTag(b, a + 2))
    /\ pc = "done" =>
        \A s \in MatchingAt :
            \A a \in KeywordAt(script[s].body, "git_repository") :
                \E i \in 1..Len(yielded) :
                    /\ yielded[i].d.type = "GitRepository"
                    /\ yielded[i].s = s /\ yielded[i].a = a

\* a tag was found behind an option that stands between the url and git_tag
C6_Witness ==
    \E i \in 1..Len(yielded) :
        LET b == script[yielded[i].s].body
            a == yielded[i].a
        IN  /\ yielded[i].d.type = "GitRepository"
            /\ yielded[i].d.tag.some
            /\ a + 2 \notin KeywordAt(b, "git_tag")
            /\ b[a + 2].contents \in EXTERNALPROJECT_OPTIONS

\* C8: when the script has exactly one statement named externalproject_add
\* (any case) and its only option among url and git_repository is one url
\* followed by its value, the extraction ends without an exception and
\* yields exactly one TarballURL, with the contents of the argument after
\* url as url and no hash; and no statement of another name yields anything.
OneUrlOption ==
    /\ Cardinality(MatchingAt) = 1
    /\ LET b == script[Min(MatchingAt)].body
       IN  /\ Cardinality(KeywordAt(b, "url")) = 1
           /\ KeywordAt(b, "git_repository") = {}
           /\ Min(KeywordAt(b, "url")) + 1 <= Len(b)
           /\ b[Min(KeywordAt(b, "url")) + 1].has

Tarballs == {i \in 1..Len(yielded) : yielded[i].d.type = "TarballURL"}

C8_ExtractionCompleteness ==
    /\ \A i \in 1..Len(yielded) : yielded[i].s \in MatchingAt
    /\ OneUrlOption =>
        LET b == script[Min(MatchingAt)].body
            k == Min(KeywordAt(b, "url"))
        IN  /\ pc # "raised"
            /\ Cardinality(Tarballs) <= 1
            /\ \A i \in Tarballs :
                /\ yielded[i].d = TarballURL(b[k + 1].contents, NoHash)
                /\ yielded[i].s = Min(MatchingAt)
            /\ pc = "done" => Cardinality(Tarballs) = 1

\* the one TarballURL came from a statement spelled in other letters than
\* externalproject_add, and a statement of another name with a URL option
\* stood before it
C8_Witness ==
    /\ pc = "done"
    /\ OneUrlOption
    /\ Cardinality(Tarballs) = 1
    /\ Len(script) = 2
    /\ MatchingAt = {2}
    /\ script[2].name # "externalproject_add"
    /\ script[1].hasname
    /\ KeywordAt(script[1].body, "url") # {}

\* C10: the extraction of any argument list ends without raising: no
\* IndexError and no AttributeError leaves the generator.
C10_ExtractorNeverRaises == exc \notin {"IndexError", "AttributeError"}

(***************************************************************************)
(* The properties of main, stated over Spec (the whole program) and        *)
(* FetchSpec (the fetch stage over descriptors that carry a hash).         *)
(***************************************************************************)
\* main is inside the loop body, past the first step of an item
InItem == {"clone", "describe", "archive", "copy", "get", "exists", "stream"}

\* the failures of one item: the GET, the clone, git describe, git archive
ItemFailures == {"HTTPError", "GitError", "CalledProcessError"}

\* C1: a failure while one item is processed is confined to that item: it
\* never leaves main, so the run goes on to the later descriptors and
\* completes.
C1_FailureConfined == ~(pc = "raised" /\ exc \in ItemFailures)

\* C2: when the file a TarballURL with a supported hash is to be written
\* to is already there with the served content, and the expected digest is
\* the digest of that content, the item is skipped, whatever the size of
\* the file and whatever the server declares as Content-Length.
C2_HashRerunSkips ==
    (/\ pc = "exists"
     /\ hash_algorithm.some
     /\ before.some
     /\ response.body = before.v
     /\ hash_value.v = Hexdigest(Update(HashNew(hash_algorithm.v), before.v)))
    => Decision = "skip"

\* C3: an item without a hash whose file exists is skipped, the file
\* untouched, exactly when the server declares a Content-Length equal to
\* the size of the file; with any other length, or none, or one that is no
\* number, the file is truncated and the body written over it, so that the
\* file holds the body when the item ends.
SizeDeclaredEqual == total.some /\ total.n = Len(before.v)

C3_SizeBasedSkip ==
    [][/\ (pc = "exists" /\ ~hash_algorithm.some /\ before.some) =>
            IF SizeDeclaredEqual
            THEN pc' = "next" /\ fs' = fs /\ writes' = writes
            ELSE pc' = "stream" /\ fs' = Put(fs, path, "") /\ path \in writes'
       /\ (pc = "stream" /\ pc' = "next") =>
            fs[path] = response.body /\ fs' = fs
      ]_vars

\* one run skipped a file of the declared size and wrote over another
\* whose size the server did not declare
C3_Witness ==
    /\ \E i \in DOMAIN log :
        log[i] = Message("exists, skipping", "sources/a.tgz")
    /\ \E i \in DOMAIN log :
        log[i] = Message("size unknown, overwriting", "patches/c.patch")
    /\ fs["patches/c.patch"] # ""
    /\ pc = "done"

\* C4: a GitRepository item whose tarball is already in sources/, where an
\* earlier run put it, is skipped: no archive is made of it and nothing is
\* copied over it.
C4_SecondRunSkipsGit ==
    pc \in {"archive", "copy"} => ~Exists(Join("sources", tarball_name))

\* C7: a GitRepository whose tag is None is resolved at the default branch
\* master: git describe is never handed the None and the item does not end
\* with the TypeError of an argument list that holds it.
C7_DefaultTagMaster == ~(pc = "raised" /\ exc = "TypeError")

\* C9: the descriptors are yielded in the order of the statements and, in
\* one statement, of the keyword arguments and of the tokens they come
\* from; main starts them in that order, and only one is in progress: the
\* generator is not resumed before the item is over, and an item that is
\* over leaves nothing behind in the locals of the loop.
Before(x, y) ==
    \/ x.s < y.s
    \/ x.s = y.s /\ x.a < y.a
    \/ x.s = y.s /\ x.a = y.a /\ x.t < y.t

C9_ExtractionOrder ==
    /\ \A i, j \in DOMAIN yielded : i < j => Before(yielded[i], yielded[j])
    /\ Len(started) <= Len(yielded)
    /\ \A i \in DOMAIN started : started[i] = yielded[i].d
    /\ Len(yielded) - Len(started) = (IF pc = "item" THEN 1 ELSE 0)
    /\ pc = "item" => item = yielded[Len(yielded)].d
    /\ pc \in InItem => item = started[Len(started)]
    /\ pc \notin InItem \cup {"item"} =>
        /\ item = NoItem
        /\ path = "" /\ response = NoResponse /\ tempdir = NoTempdir

\* a run that processed two descriptors of one statement and one of another
C9_Witness ==
    /\ pc = "done"
    /\ Len(started) >= 3
    /\ \E i, j \in DOMAIN started :
        /\ i < j
        /\ yielded[i].s = yielded[j].s
        /\ started[i].type = "TarballURL" /\ started[j].type = "PatchURL"
    /\ \E i, j \in DOMAIN started : yielded[i].s < yielded[j].s

\* C11: no decision about a file that exists ends the run: the run of the
\* fetch stage is over only when every descriptor of the list has been
\* taken, whatever the files found at the destination paths hold.
C11_DecisionsNotFatal ==
    (pc = "done" /\ exc = "") => fi > Len(descs)

\* C12: when the stream of a download with a supported hash ends and the
\* digest computed over the body differs from the expected one, a warning
\* is logged, the file stays where it was written, with what was written,
\* and main goes on to the next descriptor.
IntegrityMismatch ==
    /\ pc = "stream" /\ response.pos = Len(response.body)
    /\ digest.some /\ hash_value.v # Hexdigest(digest)

C12_MismatchNotFatal ==
    [][IntegrityMismatch =>
        /\ pc' = "next"
        /\ exc' = ""
        /\ fs' = fs /\ Exists(path) /\ fs[path] = response.body
        /\ log' = Append(log, Message("could not verify file integrity", path))
      ]_vars

\* a mismatch was warned about, the file is there, and a later descriptor
\* has been started
C12_Witness ==
    \E i \in DOMAIN log :
        /\ log[i] = Message("could not verify file integrity", "sources/a.tgz")
        /\ Exists("sources/a.tgz") /\ fs["sources/a.tgz"] # ""
        /\ i < Len(log)
        /\ log[Len(log)].msg = "Downloading URL"

\* the digest of the whole of a file
FileDigest(algorithm, content) == Hexdigest(Update(HashNew(algorithm), content))

\* C16: with a supported hash, a file whose digest is not the expected one
\* is downloaded again and written over, whatever Content-Length the
\* server declares, the size of the file included.
C16_HashDecidesOverSize ==
    (/\ pc = "exists"
     /\ hash_algorithm.some
     /\ before.some
     /\ hash_value.v # FileDigest(hash_algorithm.v, before.v))
    => Decision \in {"download", "unknown"}

\* C17: the argument taken as the value of a url or git_repository keyword
\* is not inspected as a keyword: no descriptor comes from a keyword that
\* stands at the place of the value of a TarballURL or GitRepository
\* yielded from the same statement.
C17_ValueNotInspected ==
    \A i, j \in DOMAIN yielded :
        ~(/\ yielded[i].d.type \in {"TarballURL", "GitRepository"}
          /\ yielded[j].s = yielded[i].s
          /\ yielded[j].a = yielded[i].t)

\* C18: every PatchURL comes from a scan started by an argument whose
\* contents is patch_command, whatever the case of its letters.
C18_PatchScanKeyword ==
    \A i \in DOMAIN yielded :
        yielded[i].d.type = "PatchURL" =>
            LowerOf[script[yielded[i].s].body[yielded[i].a].contents] = "patch_command"

\* C13: the temporary directory of a GitRepository item exists only while
\* the item is in progress: once the item is over, by a copy, by a skip or
\* by the failure of a step, the directory is gone.
InGitItem == {"clone", "describe", "archive", "copy"}

C13_TempdirRemoved ==
    /\ pc \in InGitItem => tempdir.exists
    /\ pc \notin InGitItem => tempdir = NoTempdir

\* the copy of a tarball made in the temporary directory has failed
C13_Witness ==
    /\ pc = "raised" /\ exc = "FileNotFoundError"
    /\ started # <<>> /\ started[Len(started)].type = "GitRepository"
    /\ tempdir = NoTempdir

\* C15: a GET that fails does not abandon the item at once: the item stays
\* in progress and the GET is issued again.  (main issues one GET an item,
\* so every GET is the first of its item.)
C15_BoundedRetry ==
    [][(pc = "get" /\ pc' # "exists") => pc' = "get"]_vars

\* C19: a destination path never holds a part of an artifact: while an item
\* is streamed to its path, the file there is the whole body.
C19_NeverPartial ==
    pc = "stream" => fs[path] = response.body

\* C20: the directory an item needs is created for it, whatever the kind of
\* the item: no copy or download ends for want of the directory, and every
\* file written lies under sources/ or patches/, which then exist.
C20_DirectoriesCreated ==
    /\ ~(pc = "raised" /\ exc = "FileNotFoundError")
    /\ \A p \in writes :
        DirName(p) \in {"sources", "patches"} /\ DirName(p) \in dirs

\* C14: the tarball of a GitRepository is named {repo_name}-{version}.tar.gz
\* and the archive holds the tree below {repo_name}/, repo_name being the
\* last segment of the url once one trailing slash and a .git at its end,
\* and only there, are taken off.
EndsWith(s, suffix) ==
    Len(s) >= Len(suffix) /\ Drop(s, Len(s) - Len(suffix)) = suffix

WithoutSuffix(s, suffix) ==
    IF EndsWith(s, suffix) THEN Take(s, Len(s) - Len(suffix)) ELSE s

ExpectedRepoName(url) ==
    WithoutSuffix(LastSegment(WithoutSuffix(url, "/")), ".git")

C14_GitExportNaming ==
    /\ pc \in {"archive", "copy"} =>
        \E version \in Versions(item.tag.v) :
            tarball_name = ExpectedRepoName(item.url) \o "-" \o version \o ".tar.gz"
    /\ \A p \in writes :
        \E d \in {descs[k] : k \in DOMAIN descs} :
            d.tag.some /\ fs[p] = ExpectedRepoName(d.url) \o "/@" \o d.tag.v
=============================================================================
